---------------------------- MODULE Spec2Model ----------------------------
(***************************************************************************)
(* Model of the risk-aware router of src/Backend/Go/main.go (graph, A*     *)
(* search, weight cache, multi-route driver) and of the parallel loader    *)
(* of src/unnamed/part_001.                                                *)
(*                                                                         *)
(* Numbers.  The code computes in float64.  The model computes in exact    *)
(* arithmetic on scaled integers:                                          *)
(*   - a coordinate is an integer; a Point is <<X, Y>>;                    *)
(*   - a distance is an integer number of distance units;                  *)
(*   - a riskScore is an integer number of 1/RiskDen;                      *)
(*   - an alpha is an integer number of 1/AlphaDen;                        *)
(*   - a cost (edge weight, costSoFar, priority) is an integer number of   *)
(*     1/CostDen distance units, or NaN;                                   *)
(*   - math.Sqrt rounds down to the cost unit.                             *)
(* float64 rounding of +, * and / is not modelled.  0/0 = NaN is.          *)
(***************************************************************************)
EXTENDS Integers, Sequences, FiniteSets, TLC

(***************************************************************************)
(* Bounds of the model.                                                    *)
(***************************************************************************)
NumWorkers == 2
MaxFeatures == 3
MaxAlphas == 2

(***************************************************************************)
(* Scales of the number representation.                                    *)
(***************************************************************************)
RiskDen == 10
AlphaDen == 40
FmtDen == 4
CostDen == AlphaDen * RiskDen

(* math.MaxFloat64 and the float64 NaN, as values outside the cost range. *)
MaxFloat64 == 2000000000
NaN == -1

(***************************************************************************)
(* Points and bounds.                                                      *)
(***************************************************************************)
chicagoBounds == [MinX |-> 1, MinY |-> 1, MaxX |-> 2, MaxY |-> 2]

isInBounds(p, bounds) ==
    /\ p[1] >= bounds.MinX /\ p[1] <= bounds.MaxX
    /\ p[2] >= bounds.MinY /\ p[2] <= bounds.MaxY

(* The zero value of Point, which findNearestPoint returns on an empty graph. *)
ZeroPoint == <<0, 0>>

PA == <<1, 1>>
PB == <<2, 1>>
PC == <<1, 2>>
PD == <<2, 2>>
POut == <<3, 1>>

(***************************************************************************)
(* float64 helpers: NaN absorbs +, and every comparison with NaN is false. *)
(***************************************************************************)
FAdd(x, y) == IF x = NaN \/ y = NaN THEN NaN ELSE x + y

FLess(x, y) == x # NaN /\ y # NaN /\ x < y

RECURSIVE SqrtBetween(_, _, _)
SqrtBetween(n, lo, hi) ==
    IF lo >= hi THEN lo
    ELSE LET mid == (lo + hi + 1) \div 2
         IN IF mid * mid <= n THEN SqrtBetween(n, mid, hi)
            ELSE SqrtBetween(n, lo, mid - 1)

(* floor(sqrt(n)) *)
Isqrt(n) == SqrtBetween(n, 0, 46340)

(* math.Sqrt on the sums of squares the model's coordinates give, in cost units *)
SqrtTable == [n \in 0..20 |-> Isqrt(n * CostDen * CostDen)]

(* math.Sqrt(math.Pow(a.X-b.X, 2) + math.Pow(a.Y-b.Y, 2)), in cost units. *)
Euclid(a, b) ==
    SqrtTable[(a[1] - b[1]) * (a[1] - b[1]) + (a[2] - b[2]) * (a[2] - b[2])]

(***************************************************************************)
(* The graph: Edges is map[Point]map[Point]Edge, a function whose domain   *)
(* is the set of keys present.                                             *)
(***************************************************************************)
EmptyMap == [x \in {} |-> 0]

MapSet(m, k, v) == [x \in (DOMAIN m) \cup {k} |-> IF x = k THEN v ELSE m[x]]

Edge(start, end, distance, riskScore) ==
    [Start |-> start, End |-> end, Distance |-> distance, RiskScore |-> riskScore]

NewGraph == [Edges |-> EmptyMap, maxDist |-> 0]

(* g.Edges[start] = make(map[Point]Edge) *)
MakeInner(E, k) == MapSet(E, k, EmptyMap)

(* g.Edges[start][end] = Edge{...}; a write to a nil inner map (which the  *)
(* nil check before it excludes) leaves the map as it is.                  *)
SetEdge(E, start, end, distance, riskScore) ==
    IF start \in DOMAIN E
    THEN MapSet(E, start, MapSet(E[start], end, Edge(start, end, distance, riskScore)))
    ELSE E

MaxCmpInverted(distance, maxDist) == distance < maxDist

(* if distance > g.maxDist *)
MaxCmp(distance, maxDist) == distance > maxDist

(* Graph.AddEdge as one atomic operation (what the mutex makes of it). *)
AddEdge(g, start, end, distance, riskScore) ==
    LET E1 == IF start \in DOMAIN g.Edges THEN g.Edges ELSE MakeInner(g.Edges, start)
        E2 == SetEdge(E1, start, end, distance, riskScore)
        E3 == IF end \in DOMAIN E2 THEN E2 ELSE MakeInner(E2, end)
        E4 == SetEdge(E3, end, start, distance, riskScore)
    IN [Edges |-> E4,
        maxDist |-> IF MaxCmp(distance, g.maxDist) THEN distance ELSE g.maxDist]

(***************************************************************************)
(* State.                                                                  *)
(*   Edges, maxDist   the Graph's fields                                   *)
(*   mu               the Graph's mutex: 0 (free) or the worker holding it *)
(*   featureChan      number of features still in the loader's channel     *)
(*   wpc, wcall       each loader worker's position and AddEdge arguments  *)
(*   inserted, maxPassed, served                                           *)
(*                    history: the pairs passed to AddEdge, the largest    *)
(*                    distance passed, the workers that completed a call     *)
(*   pc               position of the calculateRoutes call                 *)
(*   req              its arguments [start, end, alphas]                   *)
(*   idx, routes      its loop index and its routes slice                  *)
(*   ret              its return value [routes, err]                       *)
(*   nearestStart, nearestEnd, frontier, costSoFar, cameFrom, current,     *)
(*   todo             FindRoute's locals (todo: the neighbors the range    *)
(*                    loop has not visited yet)                            *)
(*   found            FindRoute's return value [path, distance, risk, err] *)
(*   weightCache      the router's weight cache                            *)
(*   lastWeight       history: the last calculateEdgeWeight call           *)
(*   outcomes         history: each FindRoute call of this calculateRoutes *)
(*   serving          main has constructed the router and serves requests  *)
(*   pend             the neighbor whose weight calculateEdgeWeight is     *)
(*                    computing between its cache load and its cache store *)
(*   cleanups         number of keys cleanupCaches has deleted             *)
(*   neverCleaned     history: the weight cache as it would be had no      *)
(*                    cleanup run                                          *)
(*   ctxDone          the request context's deadline has fired             *)
(*   lateExpansions   history: nodes expanded since the deadline fired     *)
(***************************************************************************)
VARIABLES Edges, maxDist, mu, featureChan, wpc, wcall, inserted, maxPassed, served,
          pc, req, idx, routes, ret,
          nearestStart, nearestEnd, frontier, costSoFar, cameFrom, current, todo,
          found, weightCache, lastWeight, outcomes,
          serving, pend, cleanups, neverCleaned, ctxDone, lateExpansions

graphVars == <<Edges, maxDist>>
loadVars == <<mu, featureChan, wpc, wcall, inserted, maxPassed, served>>
findVars == <<nearestStart, nearestEnd, frontier, costSoFar, cameFrom, current, todo>>
serveVars == <<serving, pend, cleanups, neverCleaned, ctxDone, lateExpansions>>
routeVars == <<pc, req, idx, routes, ret, findVars, found, weightCache, lastWeight,
               outcomes, serveVars>>
vars == <<graphVars, loadVars, routeVars>>

None == "none"
NoCall == [start |-> ZeroPoint, end |-> ZeroPoint, distance |-> 0, riskScore |-> 0]
NoFound == [path |-> <<>>, distance |-> 0, risk |-> <<0, 1>>, err |-> None]
NoWeight == [edge |-> Edge(ZeroPoint, ZeroPoint, 0, 0), alpha |-> 0, maxDist |-> 0,
             weight |-> 0, hit |-> FALSE]

(* The route side before any request. *)
RouteIdle ==
    /\ pc = "idle"
    /\ req = [start |-> ZeroPoint, end |-> ZeroPoint, alphas |-> <<>>]
    /\ idx = 0
    /\ routes = <<>>
    /\ ret = [routes |-> <<>>, err |-> None]
    /\ nearestStart = ZeroPoint
    /\ nearestEnd = ZeroPoint
    /\ frontier = {}
    /\ costSoFar = EmptyMap
    /\ cameFrom = EmptyMap
    /\ current = ZeroPoint
    /\ todo = {}
    /\ found = NoFound
    /\ weightCache = EmptyMap
    /\ lastWeight = NoWeight
    /\ outcomes = <<>>
    /\ pend = ZeroPoint
    /\ cleanups = 0
    /\ neverCleaned = EmptyMap
    /\ ctxDone = FALSE
    /\ lateExpansions = 0

(***************************************************************************)
(* The loader: loadRoadNetwork starts the workers, puts every feature in   *)
(* the channel, closes it and waits for the workers.  A feature is drawn   *)
(* when a worker receives it; it carries the four arguments AddEdge gets   *)
(* (processFeature's start, end, distance and riskScore).                  *)
(***************************************************************************)
Workers == 1..NumWorkers
LoadPoints == {PA, PB, POut}
(* the <<distance, riskScore>> a feature may carry *)
Loads == {<<0, 5>>, <<1, 9>>, <<2, 1>>}

LoadInit ==
    /\ Edges = NewGraph.Edges
    /\ maxDist = NewGraph.maxDist
    /\ mu = 0
    /\ featureChan \in 0..MaxFeatures
    /\ wpc = [w \in Workers |-> "recv"]
    /\ wcall = [w \in Workers |-> NoCall]
    /\ inserted = {}
    /\ maxPassed = 0
    /\ served = {}
    /\ serving = FALSE
    /\ RouteIdle

Goto(w, label) == wpc' = [wpc EXCEPT ![w] = label]

(* for feature := range featureChan; processFeature; the call of AddEdge *)
RecvFeature(w) ==
    /\ wpc[w] = "recv"
    /\ featureChan > 0
    /\ featureChan' = featureChan - 1
    /\ \E start \in LoadPoints, end \in LoadPoints, load \in Loads :
         IF isInBounds(start, chicagoBounds) /\ isInBounds(end, chicagoBounds)
         THEN /\ wcall' = [wcall EXCEPT ![w] = [start |-> start, end |-> end,
                              distance |-> load[1], riskScore |-> load[2]]]
              /\ inserted' = inserted \cup {<<start, end>>}
              /\ maxPassed' = IF load[1] > maxPassed THEN load[1] ELSE maxPassed
              /\ Goto(w, "lock")
         ELSE UNCHANGED <<wcall, inserted, maxPassed, wpc>>
    /\ UNCHANGED <<graphVars, mu, served, routeVars>>

(* the channel is closed and empty: the range loop ends, wg.Done() *)
RecvClosed(w) ==
    /\ wpc[w] = "recv"
    /\ featureChan = 0
    /\ Goto(w, "done")
    /\ UNCHANGED <<graphVars, mu, featureChan, wcall, inserted, maxPassed, served,
                   routeVars>>

CanLockUnguarded(holder) == TRUE

(* g.mu.Lock() succeeds when no one holds the mutex *)
CanLock(holder) == holder = 0

Lock(w) ==
    /\ wpc[w] = "lock"
    /\ CanLock(mu)
    /\ mu' = w
    /\ Goto(w, "fwdNil")
    /\ UNCHANGED <<graphVars, featureChan, wcall, inserted, maxPassed, served, routeVars>>

LoadStep(w, from, to, E, m) ==
    /\ wpc[w] = from
    /\ Goto(w, to)
    /\ Edges' = E
    /\ maxDist' = m
    /\ UNCHANGED <<mu, featureChan, wcall, inserted, maxPassed, served, routeVars>>

(* if g.Edges[start] == nil *)
FwdNil(w) ==
    LoadStep(w, "fwdNil",
             IF wcall[w].start \in DOMAIN Edges THEN "fwdSet" ELSE "fwdMake",
             Edges, maxDist)

FwdMake(w) ==
    LoadStep(w, "fwdMake", "fwdSet", MakeInner(Edges, wcall[w].start), maxDist)

FwdSet(w) ==
    LoadStep(w, "fwdSet", "revNil",
             SetEdge(Edges, wcall[w].start, wcall[w].end, wcall[w].distance,
                     wcall[w].riskScore),
             maxDist)

(* if g.Edges[end] == nil *)
RevNil(w) ==
    LoadStep(w, "revNil",
             IF wcall[w].end \in DOMAIN Edges THEN "revSet" ELSE "revMake",
             Edges, maxDist)

RevMake(w) ==
    LoadStep(w, "revMake", "revSet", MakeInner(Edges, wcall[w].end), maxDist)

RevSetDropped(w) ==
    LoadStep(w, "revSet", "maxCmp", Edges, maxDist)

RevSet(w) ==
    LoadStep(w, "revSet", "maxCmp",
             SetEdge(Edges, wcall[w].end, wcall[w].start, wcall[w].distance,
                     wcall[w].riskScore),
             maxDist)

(* if distance > g.maxDist *)
MaxCmpStep(w) ==
    LoadStep(w, "maxCmp",
             IF MaxCmp(wcall[w].distance, maxDist) THEN "maxSet" ELSE "unlock",
             Edges, maxDist)

(* g.maxDist = distance *)
MaxSet(w) ==
    LoadStep(w, "maxSet", "unlock", Edges, wcall[w].distance)

(* defer g.mu.Unlock() *)
Unlock(w) ==
    /\ wpc[w] = "unlock"
    /\ mu' = 0
    /\ served' = served \cup {w}
    /\ wcall' = [wcall EXCEPT ![w] = NoCall]
    /\ Goto(w, "recv")
    /\ UNCHANGED <<graphVars, featureChan, inserted, maxPassed, routeVars>>

LoadNext ==
    \E w \in Workers :
        \/ RecvFeature(w)
        \/ RecvClosed(w)
        \/ Lock(w)
        \/ FwdNil(w)
        \/ FwdMake(w)
        \/ FwdSet(w)
        \/ RevNil(w)
        \/ RevMake(w)
        \/ RevSet(w)
        \/ MaxCmpStep(w)
        \/ MaxSet(w)
        \/ Unlock(w)

SpecLoad == LoadInit /\ [][LoadNext]_vars

(***************************************************************************)
(* The router.  Its graph is one the loader can build: AddEdge applied to  *)
(* the segments of SegPool that the data file holds, in the file's order.  *)
(***************************************************************************)
SegPool == << <<PA, PD, 3, 5>>, <<PA, PB, 1, 1>>, <<PB, PD, 1, 9>>,
              <<PD, PA, 2, 1>>, <<PD, PD, 0, 5>> >>

RECURSIVE LoadSegments(_, _, _)
LoadSegments(g, chosen, i) ==
    IF i > Len(SegPool) THEN g
    ELSE LoadSegments(IF i \in chosen
                      THEN AddEdge(g, SegPool[i][1], SegPool[i][2], SegPool[i][3],
                                   SegPool[i][4])
                      ELSE g,
                      chosen, i + 1)

(* the arguments a caller may pass to calculateRoutes *)
QueryPoints == {PA, PC, PD, POut}
AlphaSet == {0, 1, 20, 40}
AlphaSeqs == UNION {[1..n -> AlphaSet] : n \in 0..MaxAlphas}

(***************************************************************************)
(* findNearestPoint: the range over r.G.Edges visits the nodes in an       *)
(* order the runtime picks; order is that order.                           *)
(***************************************************************************)
Orders(S) ==
    {f \in [1..Cardinality(S) -> S] : \A i, j \in 1..Cardinality(S) : i # j => f[i] # f[j]}

RECURSIVE ScanStale(_, _, _, _, _)
ScanStale(order, i, p, minDist, nearest) ==
    IF i > Len(order) THEN nearest
    ELSE LET dist == Euclid(order[i], p)
         IN IF dist < minDist
            THEN ScanStale(order, i + 1, p, minDist, order[i])
            ELSE ScanStale(order, i + 1, p, minDist, nearest)

RECURSIVE Scan(_, _, _, _, _)
Scan(order, i, p, minDist, nearest) ==
    IF i > Len(order) THEN nearest
    ELSE LET dist == Euclid(order[i], p)
         IN IF dist < minDist
            THEN Scan(order, i + 1, p, dist, order[i])
            ELSE Scan(order, i + 1, p, minDist, nearest)

findNearestStale(order, p) == ScanStale(order, 1, p, MaxFloat64, ZeroPoint)

findNearestUnsnapped(order, p) == p

findNearestPoint(order, p) == Scan(order, 1, p, MaxFloat64, ZeroPoint)

(* validatePoints: the error it returns, or None *)
validatePoints(start, end) ==
    IF ~isInBounds(start, chicagoBounds) THEN "start point outside bounds"
    ELSE IF ~isInBounds(end, chicagoBounds) THEN "end point outside bounds"
    ELSE None

heuristic(a, b) == Euclid(a, b)

(***************************************************************************)
(* calculateEdgeWeight.  The cache key is the text of the two endpoints    *)
(* and of alpha printed by %f, which keeps six decimals: alphas closer     *)
(* than the print grid give the same text.  The model's alphas are in      *)
(* 1/AlphaDen and its print grid is 1/FmtDen.                              *)
(***************************************************************************)
FmtF(alpha) == (2 * alpha * FmtDen + AlphaDen) \div (2 * AlphaDen)

CacheKey(edge, alpha) == <<edge.Start, edge.End, FmtF(alpha)>>

(* normDistance := edge.Distance / maxDist                                 *)
(* weight := ((1 - alpha) * normDistance + alpha*edge.RiskScore) * maxDist *)
(* in 1/CostDen; with maxDist = 0 the division gives NaN (0/0) or +Inf,    *)
(* and the product with maxDist = 0 is NaN.                                *)
Weight(edge, alpha, m) ==
    IF m = 0 THEN NaN
    ELSE LET normNum == edge.Distance
             normDen == m
         IN (((AlphaDen - alpha) * RiskDen * normNum
              + alpha * edge.RiskScore * normDen) * m) \div normDen

(* the value calculateEdgeWeight returns and the cache it leaves *)
calculateEdgeWeight(cache, edge, alpha, m) ==
    LET cacheKey == CacheKey(edge, alpha)
    IN IF cacheKey \in DOMAIN cache
       THEN [weight |-> cache[cacheKey], cache |-> cache, hit |-> TRUE]
       ELSE [weight |-> Weight(edge, alpha, m),
             cache |-> MapSet(cache, cacheKey, Weight(edge, alpha, m)),
             hit |-> FALSE]

(***************************************************************************)
(* reconstructPath                                                         *)
(***************************************************************************)
RECURSIVE GCD(_, _)
GCD(a, b) == IF b = 0 THEN a ELSE GCD(b, a % b)

(* a quotient of two non-negative numbers, as a fraction in lowest terms *)
Quot(n, d) == <<n \div GCD(n, d), d \div GCD(n, d)>>

RECURSIVE WalkBack(_, _, _, _, _, _)
WalkBack(E, from, cur, path, totalDist, totalRisk) ==
    IF cur \notin DOMAIN from
    THEN [path |-> path, totalDist |-> totalDist, totalRisk |-> totalRisk]
    ELSE LET prev == from[cur]
             edge == E[prev][cur]
         IN WalkBack(E, from, prev, <<prev>> \o path,
                     totalDist + edge.Distance,
                     totalRisk + edge.RiskScore * edge.Distance)

reconstructPathRiskSum(E, from, cur) ==
    LET w == WalkBack(E, from, cur, <<cur>>, 0, 0)
    IN [path |-> w.path, distance |-> w.totalDist, risk |-> <<w.totalRisk, 1>>,
        err |-> None]

reconstructPath(E, from, cur) ==
    LET w == WalkBack(E, from, cur, <<cur>>, 0, 0)
    IN [path |-> w.path,
        distance |-> w.totalDist,
        risk |-> IF w.totalDist > 0 THEN Quot(w.totalRisk, w.totalDist) ELSE <<0, 1>>,
        err |-> None]

NoPathSilent == [path |-> <<>>, distance |-> 0, risk |-> <<0, 1>>, err |-> None]

(* return nil, 0, 0, fmt.Errorf("no path found") *)
NoPathFound == [path |-> <<>>, distance |-> 0, risk |-> <<0, 1>>, err |-> "no path found"]

(***************************************************************************)
(* calculateRoutes and FindRoute, step by step.                            *)
(***************************************************************************)
RouteInit ==
    /\ \E chosen \in SUBSET (1..Len(SegPool)) :
          /\ Edges = LoadSegments(NewGraph, chosen, 1).Edges
          /\ maxDist = LoadSegments(NewGraph, chosen, 1).maxDist
    /\ mu = 0
    /\ featureChan = 0
    /\ wpc = [w \in Workers |-> "done"]
    /\ wcall = [w \in Workers |-> NoCall]
    /\ inserted = {}
    /\ maxPassed = 0
    /\ served = {}
    /\ serving = TRUE
    /\ RouteIdle

(* a caller enters calculateRoutes(start, end, alphas): var routes []Route *)
Call ==
    /\ pc = "idle"
    /\ \E start \in QueryPoints, end \in QueryPoints, alphas \in AlphaSeqs :
          req' = [start |-> start, end |-> end, alphas |-> alphas]
    /\ idx' = 1
    /\ routes' = <<>>
    /\ pc' = "loop"
    /\ UNCHANGED <<graphVars, loadVars, serveVars, ret, findVars, found, weightCache, lastWeight,
                   outcomes>>

InLoop == pc = "loop" /\ idx <= Len(req.alphas)

(* FindRoute: validatePoints fails *)
FindRouteInvalid ==
    /\ InLoop
    /\ validatePoints(req.start, req.end) # None
    /\ found' = [path |-> <<>>, distance |-> 0, risk |-> <<0, 1>>,
                 err |-> validatePoints(req.start, req.end)]
    /\ pc' = "found"
    /\ UNCHANGED <<graphVars, loadVars, serveVars, req, idx, routes, ret, findVars, weightCache,
                   lastWeight, outcomes>>

Item(point, priority) == [point |-> point, priority |-> priority]

(* FindRoute: the two findNearestPoint calls, the first push, costSoFar and *)
(* cameFrom                                                                 *)
ResolveAndPush ==
    /\ nearestStart' \in {findNearestPoint(order, req.start) : order \in Orders(DOMAIN Edges)}
    /\ nearestEnd' \in {findNearestPoint(order, req.end) : order \in Orders(DOMAIN Edges)}
    /\ frontier' = {Item(nearestStart', heuristic(nearestStart', nearestEnd'))}
    /\ costSoFar' = MapSet(EmptyMap, nearestStart', 0)
    /\ cameFrom' = EmptyMap
    /\ current' = ZeroPoint
    /\ todo' = {}
    /\ pc' = "search"
    /\ UNCHANGED <<graphVars, loadVars, serveVars, req, idx, routes, ret, found, weightCache,
                   lastWeight, outcomes>>

(* FindRoute: validatePoints passes *)
FindRouteStart ==
    /\ InLoop
    /\ validatePoints(req.start, req.end) = None
    /\ ResolveAndPush

(* heap.Pop gives an item no other item is Less than *)
Poppable == {it \in frontier : \A other \in frontier : ~FLess(other.priority, it.priority)}

GoalTestRaw(cur, nEnd, end) == cur = end

GoalTestNever(cur, nEnd, end) == FALSE

(* if current == nearestEnd *)
GoalTest(cur, nEnd, end) == cur = nEnd

(* the end node is popped: return r.reconstructPath(cameFrom, current) *)
PopGoal ==
    /\ pc = "search"
    /\ \E it \in Poppable :
          /\ GoalTest(it.point, nearestEnd, req.end)
          /\ frontier' = frontier \ {it}
          /\ current' = it.point
          /\ found' = reconstructPath(Edges, cameFrom, it.point)
    /\ pc' = "found"
    /\ UNCHANGED <<graphVars, loadVars, serveVars, req, idx, routes, ret, nearestStart, nearestEnd,
                   costSoFar, cameFrom, todo, weightCache, lastWeight, outcomes>>

(* neighbors := r.G.Edges[current]: the keys the range loop will visit *)
Neighbors(E, cur) == IF cur \in DOMAIN E THEN DOMAIN E[cur] ELSE {}

(* another node is popped: its neighbors are to be ranged over.  The loop  *)
(* does not look at the request's context.                                 *)
PopExpand ==
    /\ pc = "search"
    /\ \E it \in Poppable :
          /\ ~GoalTest(it.point, nearestEnd, req.end)
          /\ frontier' = frontier \ {it}
          /\ current' = it.point
          /\ todo' = Neighbors(Edges, it.point)
          /\ pc' = IF Neighbors(Edges, it.point) = {} THEN "search" ELSE "range"
    /\ lateExpansions' = IF ctxDone THEN lateExpansions + 1 ELSE lateExpansions
    /\ UNCHANGED <<graphVars, loadVars, serving, pend, cleanups, neverCleaned, ctxDone,
                   req, idx, routes, ret, nearestStart, nearestEnd,
                   costSoFar, cameFrom, found, weightCache, lastWeight, outcomes>>

(* a search that drops every cost from maxDist on *)
ImprovesBelowMaxDist(costs, nextPoint, newCost) ==
    /\ FLess(newCost, maxDist * CostDen)
    /\ (nextPoint \notin DOMAIN costs \/ FLess(newCost, costs[nextPoint]))

ImprovesOrEqual(costs, nextPoint, newCost) ==
    nextPoint \notin DOMAIN costs \/ ~FLess(costs[nextPoint], newCost)

(* if cost, exists := costSoFar[nextPoint]; !exists || newCost < cost *)
Improves(costs, nextPoint, newCost) ==
    nextPoint \notin DOMAIN costs \/ FLess(newCost, costs[nextPoint])

(* the loop body with the predecessor written outside the test *)
RelaxPredecessorAlways(nextPoint, weight) ==
    LET newCost == FAdd(costSoFar[current], weight)
    IN /\ IF Improves(costSoFar, nextPoint, newCost)
          THEN /\ costSoFar' = MapSet(costSoFar, nextPoint, newCost)
               /\ frontier' = frontier \cup
                      {Item(nextPoint, FAdd(newCost, heuristic(nextPoint, nearestEnd)))}
          ELSE UNCHANGED <<costSoFar, frontier>>
       /\ cameFrom' = MapSet(cameFrom, nextPoint, current)
       /\ todo' = todo \ {nextPoint}
       /\ pc' = IF todo \ {nextPoint} = {} THEN "search" ELSE "range"

(* the rest of the loop body once the weight is known: newCost, the test,  *)
(* the three writes, and the step to the next neighbor                     *)
Relax(nextPoint, weight) ==
    LET newCost == FAdd(costSoFar[current], weight)
    IN /\ IF Improves(costSoFar, nextPoint, newCost)
          THEN /\ costSoFar' = MapSet(costSoFar, nextPoint, newCost)
               /\ frontier' = frontier \cup
                      {Item(nextPoint, FAdd(newCost, heuristic(nextPoint, nearestEnd)))}
               /\ cameFrom' = MapSet(cameFrom, nextPoint, current)
          ELSE UNCHANGED <<costSoFar, frontier, cameFrom>>
       /\ todo' = todo \ {nextPoint}
       /\ pc' = IF todo \ {nextPoint} = {} THEN "search" ELSE "range"

(* what a cache that is never cleaned holds after a call with this key *)
NeverCleanedAfter(nc, cacheKey, weight) ==
    IF cacheKey \in DOMAIN nc THEN nc ELSE MapSet(nc, cacheKey, weight)

(* one iteration of: for nextPoint, edge := range neighbors, with the call *)
(* of calculateEdgeWeight as one step                                      *)
RangeNeighbor ==
    /\ pc = "range"
    /\ \E nextPoint \in todo :
          LET edge == Edges[current][nextPoint]
              alpha == req.alphas[idx]
              w == calculateEdgeWeight(weightCache, edge, alpha, maxDist)
          IN /\ weightCache' = w.cache
             /\ neverCleaned' = NeverCleanedAfter(neverCleaned, CacheKey(edge, alpha),
                                                  Weight(edge, alpha, maxDist))
             /\ lastWeight' = [edge |-> edge, alpha |-> alpha, maxDist |-> maxDist,
                               weight |-> w.weight, hit |-> w.hit]
             /\ Relax(nextPoint, w.weight)
    /\ UNCHANGED <<graphVars, loadVars, serving, pend, cleanups, ctxDone, lateExpansions,
                   req, idx, routes, ret, nearestStart, nearestEnd,
                   current, found, outcomes>>

(* the queue is empty: return nil, 0, 0, "no path found" *)
NoPath ==
    /\ pc = "search"
    /\ frontier = {}
    /\ found' = NoPathFound
    /\ pc' = "found"
    /\ UNCHANGED <<graphVars, loadVars, serveVars, req, idx, routes, ret, findVars, weightCache,
                   lastWeight, outcomes>>

AppendRouteFront(rs, route) == <<route>> \o rs

(* routes = append(routes, Route{...}) *)
AppendRoute(rs, route) == Append(rs, route)

NextIndexBreak(i, n) == n + 1

(* continue: the loop goes on with the next alpha *)
NextIndex(i, n) == i + 1

(* history: what the FindRoute call that just returned was given, what it  *)
(* resolved (when it got that far) and what it returned                    *)
Outcome ==
    [alpha |-> req.alphas[idx],
     resolved |-> validatePoints(req.start, req.end) = None,
     nearestStart |-> nearestStart,
     nearestEnd |-> nearestEnd,
     path |-> found.path,
     distance |-> found.distance,
     risk |-> found.risk,
     err |-> found.err]

(* calculateRoutes takes FindRoute's return: on an error it logs and       *)
(* continues, otherwise it appends the route                               *)
HandleFound ==
    /\ pc = "found"
    /\ outcomes' = Append(outcomes, Outcome)
    /\ IF found.err # None
       THEN /\ idx' = NextIndex(idx, Len(req.alphas))
            /\ UNCHANGED routes
       ELSE /\ routes' = AppendRoute(routes, [Path |-> found.path,
                                               Distance |-> found.distance,
                                               Risk |-> found.risk,
                                               Alpha |-> req.alphas[idx]])
            /\ idx' = idx + 1
    /\ pc' = "loop"
    /\ UNCHANGED <<graphVars, loadVars, serveVars, req, ret, findVars, found, weightCache,
                   lastWeight>>

(* if len(routes) == 0 *)
NoRoutes(rs) == Len(rs) = 0

(* the loop is over: "no valid routes found", or the routes *)
Return ==
    /\ pc = "loop"
    /\ idx > Len(req.alphas)
    /\ ret' = IF NoRoutes(routes)
              THEN [routes |-> <<>>, err |-> "no valid routes found"]
              ELSE [routes |-> routes, err |-> None]
    /\ pc' = "done"
    /\ UNCHANGED <<graphVars, loadVars, serveVars, req, idx, routes, findVars, found, weightCache,
                   lastWeight, outcomes>>


RouteNext ==
    \/ Call
    \/ FindRouteInvalid
    \/ FindRouteStart
    \/ PopGoal
    \/ PopExpand
    \/ RangeNeighbor
    \/ NoPath
    \/ HandleFound
    \/ Return

SpecRoute == RouteInit /\ [][RouteNext]_vars

(***************************************************************************)
(* findNearestPoint alone, on every graph of the family and every point of *)
(* the coordinate grid; the call's argument is kept in req.start and its   *)
(* result in nearestStart.                                                 *)
(***************************************************************************)
GridPoints == (0..3) \X (0..3)

NearestCall ==
    /\ pc \in {"idle", "nearest"}
    /\ \E p \in GridPoints, order \in Orders(DOMAIN Edges) :
          /\ req' = [req EXCEPT !.start = p]
          /\ nearestStart' = findNearestPoint(order, p)
    /\ pc' = "nearest"
    /\ UNCHANGED <<graphVars, loadVars, serveVars, idx, routes, ret, nearestEnd, frontier, costSoFar,
                   cameFrom, current, todo, found, weightCache, lastWeight, outcomes>>

SpecNearest == RouteInit /\ [][NearestCall]_vars

(***************************************************************************)
(* Routers over other road files.  A pool is the list of segments a road   *)
(* file may hold; the graph is AddEdge applied to the segments it holds.   *)
(***************************************************************************)
RECURSIVE LoadFrom(_, _, _, _)
LoadFrom(pool, g, chosen, i) ==
    IF i > Len(pool) THEN g
    ELSE LoadFrom(pool,
                  IF i \in chosen
                  THEN AddEdge(g, pool[i][1], pool[i][2], pool[i][3], pool[i][4])
                  ELSE g,
                  chosen, i + 1)

(* the router NewRiskAwareRouter returns for a file that holds the chosen   *)
(* segments of pool                                                        *)
RouterLoaded(pool, chosen) ==
    /\ Edges = LoadFrom(pool, NewGraph, chosen, 1).Edges
    /\ maxDist = LoadFrom(pool, NewGraph, chosen, 1).maxDist
    /\ mu = 0
    /\ featureChan = 0
    /\ wpc = [w \in Workers |-> "done"]
    /\ wcall = [w \in Workers |-> NoCall]
    /\ inserted = {}
    /\ maxPassed = 0
    /\ served = {}
    /\ serving = TRUE
    /\ RouteIdle

(* any segments of the pool *)
RouterOver(pool) == \E chosen \in SUBSET (1..Len(pool)) : RouterLoaded(pool, chosen)

(* the first n segments of the pool *)
RouterOnPrefix(pool) == \E n \in 0..Len(pool) : RouterLoaded(pool, 1..n)

(* zero-length segments: a LineString that repeats a coordinate, for which *)
(* processFeature computes the distance 0                                  *)
DegenPool == << <<PA, PA, 0, 5>>, <<PD, PD, 0, 5>> >>

SpecDegen == RouterOver(DegenPool) /\ [][RouteNext]_vars

(***************************************************************************)
(* The serving router: requests run while the cleanup goroutine of         *)
(* startCacheCleanup deletes cache keys.  calculateEdgeWeight is two steps *)
(* here, its cache load and, after a miss, its cache store.                *)
(***************************************************************************)
MaxCleanups == 1

(* a risky direct road A-D and a slightly longer road A-B-D without risk *)
(* and a zero-length segment apart from them                              *)
DetourPool == << <<PA, PD, 44, 9>>, <<PA, PB, 22, 0>>, <<PB, PD, 23, 0>>,
                 <<PC, PC, 0, 5>> >>

(* r.weightCache.Load(cacheKey): on a hit the weight is returned; on a     *)
(* miss the call goes on to compute it                                     *)
WeightLoad ==
    /\ pc = "range"
    /\ \E nextPoint \in todo :
          LET edge == Edges[current][nextPoint]
              alpha == req.alphas[idx]
              cacheKey == CacheKey(edge, alpha)
          IN IF cacheKey \in DOMAIN weightCache
             THEN /\ lastWeight' = [edge |-> edge, alpha |-> alpha, maxDist |-> maxDist,
                                    weight |-> weightCache[cacheKey], hit |-> TRUE]
                  /\ Relax(nextPoint, weightCache[cacheKey])
                  /\ UNCHANGED pend
             ELSE /\ pend' = nextPoint
                  /\ pc' = "store"
                  /\ UNCHANGED <<lastWeight, costSoFar, frontier, cameFrom, todo>>
    /\ UNCHANGED <<graphVars, loadVars, serving, cleanups, neverCleaned, ctxDone,
                   lateExpansions, req, idx, routes, ret, nearestStart, nearestEnd,
                   current, found, weightCache, outcomes>>

(* normDistance, weight, r.weightCache.Store(cacheKey, weight), return;    *)
(* then the rest of the loop body                                          *)
WeightStore ==
    /\ pc = "store"
    /\ LET edge == Edges[current][pend]
           alpha == req.alphas[idx]
           cacheKey == CacheKey(edge, alpha)
           weight == Weight(edge, alpha, maxDist)
       IN /\ weightCache' = MapSet(weightCache, cacheKey, weight)
          /\ neverCleaned' = NeverCleanedAfter(neverCleaned, cacheKey, weight)
          /\ lastWeight' = [edge |-> edge, alpha |-> alpha, maxDist |-> maxDist,
                            weight |-> weight, hit |-> FALSE]
          /\ Relax(pend, weight)
    /\ pend' = ZeroPoint
    /\ UNCHANGED <<graphVars, loadVars, serving, cleanups, ctxDone, lateExpansions,
                   req, idx, routes, ret, nearestStart, nearestEnd, current, found,
                   outcomes>>

(* r.weightCache.Delete(key) *)
CacheDelete(cache, key) == [k \in (DOMAIN cache) \ {key} |-> cache[k]]

(* cleanupCaches, one key of its Range at a time: the ticker goroutine     *)
(* runs beside the requests, and a key stored during the Range may or may  *)
(* not be visited                                                          *)
CleanupDelete ==
    /\ cleanups < MaxCleanups
    /\ \E key \in DOMAIN weightCache : weightCache' = CacheDelete(weightCache, key)
    /\ cleanups' = cleanups + 1
    /\ UNCHANGED <<graphVars, loadVars, serving, pend, neverCleaned, ctxDone,
                   lateExpansions, pc, req, idx, routes, ret, findVars, found,
                   lastWeight, outcomes>>

(* the deadline of the context handleRouteRequest made fires while         *)
(* calculateRoutes runs (the handler looks at ctx.Done() once, before the  *)
(* call, and does not pass ctx on)                                         *)
Deadline ==
    /\ pc \notin {"idle", "done"}
    /\ ~ctxDone
    /\ ctxDone' = TRUE
    /\ UNCHANGED <<graphVars, loadVars, serving, pend, cleanups, neverCleaned,
                   lateExpansions, pc, req, idx, routes, ret, findVars, found,
                   weightCache, lastWeight, outcomes>>

ServeNext ==
    \/ Call
    \/ FindRouteInvalid
    \/ FindRouteStart
    \/ PopGoal
    \/ PopExpand
    \/ WeightLoad
    \/ WeightStore
    \/ NoPath
    \/ HandleFound
    \/ Return
    \/ CleanupDelete

SpecServe == RouterOnPrefix(DetourPool) /\ [][ServeNext]_vars

(* requests under a deadline *)
DeadlineNext == RouteNext \/ Deadline

SpecDeadline == RouterOnPrefix(DetourPool) /\ [][DeadlineNext]_vars

(***************************************************************************)
(* The router of src/unnamed/part_000: its FindRoute starts with the two   *)
(* findNearestPoint calls, and neither it nor its handleRouteRequest calls *)
(* validatePoints.  The rest is the same code.                             *)
(***************************************************************************)
FindRouteStart_part000 ==
    /\ InLoop
    /\ ResolveAndPush

Next_part000 ==
    \/ Call
    \/ FindRouteStart_part000
    \/ PopGoal
    \/ PopExpand
    \/ RangeNeighbor
    \/ NoPath
    \/ HandleFound
    \/ Return

Spec_part000 == RouterOnPrefix(DetourPool) /\ [][Next_part000]_vars

(***************************************************************************)
(* main: NewRiskAwareRouter loads the road file (here with the workers of  *)
(* src/unnamed/part_001), and only when loadRoadNetwork has returned does  *)
(* main register the handler and serve requests.                           *)
(***************************************************************************)
WaitGroupSkipped(positions) == TRUE

WaitGroupAnyDone(positions) == \E w \in Workers : positions[w] = "done"

(* wg.Wait() returns when every worker has called wg.Done() *)
WaitGroupZero(positions) == \A w \in Workers : positions[w] = "done"

(* wg.Wait() returns; loadRoadNetwork and NewRiskAwareRouter return; main   *)
(* goes on to ListenAndServe                                                *)
WgWait ==
    /\ ~serving
    /\ WaitGroupZero(wpc)
    /\ serving' = TRUE
    /\ UNCHANGED <<graphVars, loadVars, pend, cleanups, neverCleaned, ctxDone,
                   lateExpansions, pc, req, idx, routes, ret, findVars, found,
                   weightCache, lastWeight, outcomes>>

(* alphas := []float64{0.00, 0.25, 0.50, 0.75} *)
HandlerAlphas == <<0, 10, 20, 30>>

(* handleRouteRequest up to its call of calculateRoutes: a request with a  *)
(* point outside the bounds is answered 400, another one enters            *)
(* calculateRoutes with the handler's alphas                               *)
handleRouteRequest ==
    /\ pc = "idle"
    /\ \E start \in QueryPoints, end \in QueryPoints :
          IF validatePoints(start, end) # None
          THEN /\ req' = [start |-> start, end |-> end, alphas |-> <<>>]
               /\ ret' = [routes |-> <<>>, err |-> validatePoints(start, end)]
               /\ pc' = "done"
               /\ UNCHANGED <<idx, routes>>
          ELSE /\ req' = [start |-> start, end |-> end, alphas |-> HandlerAlphas]
               /\ idx' = 1
               /\ routes' = <<>>
               /\ pc' = "loop"
               /\ UNCHANGED ret
    /\ UNCHANGED <<graphVars, loadVars, serveVars, findVars, found, weightCache, lastWeight,
                   outcomes>>

(* a step of a request, which runs once the server listens *)
Serving(step) == serving /\ step

MainNext ==
    \/ LoadNext
    \/ WgWait
    \/ Serving(handleRouteRequest)
    \/ Serving(FindRouteStart)
    \/ Serving(PopGoal)
    \/ Serving(PopExpand)
    \/ Serving(RangeNeighbor)
    \/ Serving(NoPath)
    \/ Serving(HandleFound)
    \/ Serving(Return)
    \/ Serving(CleanupDelete)

(* the number of features of main's road file *)
MainFeatures == 2

MainInit == LoadInit /\ featureChan <= MainFeatures

SpecMain == MainInit /\ [][MainNext]_vars

(***************************************************************************)
(* The square N-E-S-W with unit edges.                                     *)
(***************************************************************************)
SqN == PA
SqE == PB
SqS == PD
SqW == PC

(* N-E 0.1, E-S 0.9, S-W 0.1, W-N 0.1 *)
SquarePool == << <<SqN, SqE, 1, 1>>, <<SqE, SqS, 1, 9>>, <<SqS, SqW, 1, 1>>,
                 <<SqW, SqN, 1, 1>> >>

SquareGraph == LoadFrom(SquarePool, NewGraph, 1..Len(SquarePool), 1)

SpecSquare == RouterOver(SquarePool) /\ [][RouteNext]_vars

(***************************************************************************)
(* FindRoute runs to its return: the goroutine of a request is scheduled   *)
(* until its loop ends, so a step of the loop that can be taken is taken.  *)
(***************************************************************************)
FindRouteStep == PopGoal \/ PopExpand \/ RangeNeighbor \/ NoPath

SpecRouteFair == SpecRoute /\ WF_vars(FindRouteStep)

(* the same on the routers over the square and its sub-graphs *)
SpecSquareFair == SpecSquare /\ WF_vars(FindRouteStep)

(***************************************************************************)
(* Properties of the graph under construction.                             *)
(***************************************************************************)
Nodes == DOMAIN Edges

(* every stored directed edge, as <<u, v>> *)
EdgePairs == {uv \in Nodes \X Nodes : uv[2] \in DOMAIN Edges[uv[1]]}

(* no AddEdge call is in progress *)
NoAddEdgeRunning == \A w \in Workers : wpc[w] \in {"recv", "lock", "done"}

AllWorkersDone == \A w \in Workers : wpc[w] = "done"

InAddEdge(w) == wpc[w] \notin {"recv", "lock", "done"}

(* C1: between AddEdge calls, for every stored directed edge (u,v) the edge *)
(* (v,u) is stored too and has the same distance and the same riskScore.   *)
C1_Symmetry ==
    NoAddEdgeRunning =>
        \A uv \in EdgePairs :
            /\ uv[2] \in Nodes
            /\ uv[1] \in DOMAIN Edges[uv[2]]
            /\ Edges[uv[2]][uv[1]].Distance = Edges[uv[1]][uv[2]].Distance
            /\ Edges[uv[2]][uv[1]].RiskScore = Edges[uv[1]][uv[2]].RiskScore

(* a self-loop and a proper edge are stored, and the pair that carried the *)
(* largest distance was called again with a smaller one                    *)
C1_Witness ==
    /\ NoAddEdgeRunning
    /\ \E p \in Nodes : p \in DOMAIN Edges[p]
    /\ \E uv \in EdgePairs : uv[1] # uv[2]
    /\ \A uv \in EdgePairs : Edges[uv[1]][uv[2]].Distance < maxDist

(* C2: maxDist never decreases, and between AddEdge calls it is at least   *)
(* the distance of every edge stored in the graph.                         *)
C2_MaxDist ==
    /\ [](NoAddEdgeRunning =>
            \A uv \in EdgePairs : maxDist >= Edges[uv[1]][uv[2]].Distance)
    /\ [][maxDist' >= maxDist]_vars

(* maxDist was raised twice and an edge shorter than maxDist is stored *)
C2_Witness ==
    /\ NoAddEdgeRunning
    /\ maxDist = 2
    /\ \E uv \in EdgePairs : Edges[uv[1]][uv[2]].Distance = 1
    /\ \E uv \in EdgePairs : Edges[uv[1]][uv[2]].Distance = 2

(* C3: at most one worker is inside AddEdge at a time, and once every      *)
(* worker has finished, both directed edges of every pair passed to        *)
(* AddEdge are stored and maxDist is the largest distance passed.          *)
C3_ConcurrentInsert ==
    /\ \A w1 \in Workers, w2 \in Workers :
           (InAddEdge(w1) /\ InAddEdge(w2)) => w1 = w2
    /\ AllWorkersDone =>
           /\ \A se \in inserted :
                  /\ se[1] \in Nodes /\ se[2] \in DOMAIN Edges[se[1]]
                  /\ se[2] \in Nodes /\ se[1] \in DOMAIN Edges[se[2]]
           /\ maxDist = maxPassed

(* every worker completed an AddEdge, on different pairs, and all finished *)
C3_Witness ==
    /\ AllWorkersDone
    /\ served = Workers
    /\ Cardinality(inserted) >= 2
    /\ maxDist > 0

(***************************************************************************)
(* Properties of calculateRoutes and FindRoute.                            *)
(***************************************************************************)
Calls == 1..Len(outcomes)

(* the routes calculateRoutes must return after the first n FindRoute calls *)
RECURSIVE ExpectedRoutes(_)
ExpectedRoutes(n) ==
    IF n = 0 THEN <<>>
    ELSE IF outcomes[n].err # None THEN ExpectedRoutes(n - 1)
    ELSE Append(ExpectedRoutes(n - 1),
                [Path |-> outcomes[n].path, Distance |-> outcomes[n].distance,
                 Risk |-> outcomes[n].risk, Alpha |-> req.alphas[n]])

(* C4: the returned routes are, in the order of the input alphas, the      *)
(* routes of the alphas whose FindRoute succeeded, each with the alpha it  *)
(* was computed with; a failed alpha has no entry.                         *)
C4_RouteOrder ==
    pc = "done" =>
        /\ Len(outcomes) = Len(req.alphas)
        /\ \A i \in Calls : outcomes[i].alpha = req.alphas[i]
        /\ ret.routes = ExpectedRoutes(Len(outcomes))

(* two alphas gave two different routes, returned in the input order *)
C4_Witness ==
    /\ pc = "done"
    /\ Len(ret.routes) = 2
    /\ ret.routes[1].Alpha = req.alphas[1]
    /\ ret.routes[2].Alpha = req.alphas[2]
    /\ ret.routes[1].Alpha # ret.routes[2].Alpha
    /\ ret.routes[1].Path # ret.routes[2].Path

(* C5: calculateRoutes returns "no valid routes found" exactly when every  *)
(* FindRoute call failed; with one success it returns a non-empty list and *)
(* no error; every alpha is processed, whatever failed before it.          *)
C5_NoValidRoutes ==
    pc = "done" =>
        /\ Len(outcomes) = Len(req.alphas)
        /\ (ret.err = "no valid routes found") <=> (\A i \in Calls : outcomes[i].err # None)
        /\ (\E i \in Calls : outcomes[i].err = None) =>
               (ret.err = None /\ Len(ret.routes) > 0)
        /\ ret.err \in {None, "no valid routes found"}

(* two alphas, both searched and both without a path *)
C5_Witness ==
    /\ pc = "done"
    /\ Len(outcomes) = 2
    /\ \A i \in Calls : outcomes[i].err = "no path found"
    /\ ret.err = "no valid routes found"
    /\ ret.routes = <<>>

(* the nodes reachable from a set of nodes along stored edges *)
RECURSIVE ReachFrom(_)
ReachFrom(S) ==
    LET T == S \cup UNION {DOMAIN Edges[u] : u \in S \cap Nodes}
    IN IF T = S THEN S ELSE ReachFrom(T)

(* two graph nodes in different connected components *)
Disconnected(u, v) == u \in Nodes /\ v \in Nodes /\ v \notin ReachFrom({u})

(* C6: a FindRoute call whose resolved start and end nodes lie in          *)
(* different components returns "no path found", for every alpha; when     *)
(* that is so for every call, calculateRoutes returns "no valid routes     *)
(* found".                                                                 *)
C6_NoPath ==
    /\ \A i \in Calls :
           (outcomes[i].resolved /\ Disconnected(outcomes[i].nearestStart, outcomes[i].nearestEnd))
               => outcomes[i].err = "no path found"
    /\ (/\ pc = "done"
        /\ \A i \in Calls :
               outcomes[i].resolved /\ Disconnected(outcomes[i].nearestStart, outcomes[i].nearestEnd))
           => (ret.err = "no valid routes found" /\ ret.routes = <<>>)

(* two different alphas were searched between two components *)
C6_Witness ==
    /\ pc = "done"
    /\ Len(outcomes) = 2
    /\ outcomes[1].alpha # outcomes[2].alpha
    /\ \A i \in Calls :
           outcomes[i].resolved /\ Disconnected(outcomes[i].nearestStart, outcomes[i].nearestEnd)
    /\ ret.err = "no valid routes found"

(* C7: a FindRoute call whose start and end resolve to the same node       *)
(* succeeds with a path of exactly one point, distance 0 and risk 0.       *)
C7_Degenerate ==
    \A i \in Calls :
        (outcomes[i].resolved /\ outcomes[i].nearestStart = outcomes[i].nearestEnd)
            => /\ outcomes[i].err = None
               /\ outcomes[i].path = <<outcomes[i].nearestStart>>
               /\ outcomes[i].distance = 0
               /\ outcomes[i].risk = <<0, 1>>

(* different start and end resolved to one node that has a self-loop and   *)
(* another edge, searched with alpha > 0                                   *)
C7_Witness ==
    \E i \in Calls :
        /\ outcomes[i].resolved
        /\ req.start # req.end
        /\ outcomes[i].nearestStart = outcomes[i].nearestEnd
        /\ outcomes[i].nearestStart \in Nodes
        /\ outcomes[i].nearestStart \in DOMAIN Edges[outcomes[i].nearestStart]
        /\ Cardinality(DOMAIN Edges[outcomes[i].nearestStart]) > 1
        /\ outcomes[i].alpha > 0
        /\ Len(outcomes[i].path) = 1

(* squared straight-line distance, exact *)
Dist2(a, b) == (a[1] - b[1]) * (a[1] - b[1]) + (a[2] - b[2]) * (a[2] - b[2])

(* n is a graph node and no graph node is nearer to p *)
IsNearestNode(n, p) == n \in Nodes /\ \A m \in Nodes : Dist2(n, p) <= Dist2(m, p)

C9_Nearest ==
    (pc = "nearest" /\ Nodes # {}) => IsNearestNode(nearestStart, req.start)

(* three nodes at two or more distances from a query point that is no node *)
C9_Witness ==
    /\ pc = "nearest"
    /\ Cardinality(Nodes) = 3
    /\ req.start \notin Nodes
    /\ \E m \in Nodes : Dist2(m, req.start) > Dist2(nearestStart, req.start)

(* C10: with maxDist > 0, calculateEdgeWeight returns                      *)
(* ((1-alpha)*(distance/maxDist) + alpha*riskScore)*maxDist, which is the  *)
(* edge distance at alpha = 0, riskScore*maxDist at alpha = 1, and lies    *)
(* between the two for every alpha (all in 1/CostDen).                     *)
C10_WeightFormula ==
    (lastWeight # NoWeight /\ lastWeight.maxDist > 0) =>
        LET d == lastWeight.edge.Distance * CostDen
            r == lastWeight.edge.RiskScore * lastWeight.maxDist * AlphaDen
            a == lastWeight.alpha
        IN /\ lastWeight.weight * AlphaDen = (AlphaDen - a) * d + a * r
           /\ a = 0 => lastWeight.weight = d
           /\ a = AlphaDen => lastWeight.weight = r
           /\ (d <= r) => (d <= lastWeight.weight /\ lastWeight.weight <= r)
           /\ (r <= d) => (r <= lastWeight.weight /\ lastWeight.weight <= d)

(* the same statement for the calls that miss the cache *)
WeightOnCacheMiss == lastWeight.hit \/ C10_WeightFormula

(***************************************************************************)
(* Properties of the weight computation on degenerate graphs.              *)
(***************************************************************************)
(* C11: when maxDist is 0, calculateEdgeWeight yields the weight 0 (its    *)
(* division by maxDist is guarded).                                        *)
C11_ZeroMaxDist ==
    (lastWeight # NoWeight /\ lastWeight.maxDist = 0) => lastWeight.weight = 0

(* C12: an empty graph is detected at load time, so no route request is   *)
(* answered (here: answered with routes) by a router whose graph has no    *)
(* nodes.                                                                  *)
C12_NoEmptyGraphServed ==
    (serving /\ pc = "done" /\ ret.err = None) => Nodes # {}

(***************************************************************************)
(* Properties of the weight cache.                                         *)
(***************************************************************************)
(* heap.Pop on a queue fr *)
PoppableOf(fr) == {it \in fr : \A other \in fr : ~FLess(other.priority, it.priority)}

(* FindRoute's loop on a router without the weight cache (every weight is  *)
(* computed by the formula): the set of results it can return, over every  *)
(* pop among equal priorities and every order of the neighbors             *)
RECURSIVE ColdSearch(_, _, _, _, _)
RECURSIVE ColdRange(_, _, _, _, _, _, _)
ColdSearch(nEnd, alpha, fr, costs, from) ==
    IF fr = {} THEN {NoPathFound}
    ELSE UNION {IF GoalTest(it.point, nEnd, nEnd)
                THEN {reconstructPath(Edges, from, it.point)}
                ELSE ColdRange(nEnd, alpha, fr \ {it}, costs, from, it.point,
                               Neighbors(Edges, it.point)) : it \in PoppableOf(fr)}

ColdRange(nEnd, alpha, fr, costs, from, cur, rest) ==
    IF rest = {} THEN ColdSearch(nEnd, alpha, fr, costs, from)
    ELSE UNION {LET newCost == FAdd(costs[cur], Weight(Edges[cur][n], alpha, maxDist))
                IN IF Improves(costs, n, newCost)
                   THEN ColdRange(nEnd, alpha,
                                  fr \cup {Item(n, FAdd(newCost, heuristic(n, nEnd)))},
                                  MapSet(costs, n, newCost), MapSet(from, n, cur), cur,
                                  rest \ {n})
                   ELSE ColdRange(nEnd, alpha, fr, costs, from, cur, rest \ {n})
                : n \in rest}

ColdRoutes(nStart, nEnd, alpha) ==
    ColdSearch(nEnd, alpha, {Item(nStart, heuristic(nStart, nEnd))},
               MapSet(EmptyMap, nStart, 0), EmptyMap)

(* C13: whatever the weight cache holds from earlier computations, the     *)
(* route FindRoute returns (path, distance, risk, or its error) is one a   *)
(* router without the cache returns for the same resolved nodes and alpha. *)
C13_CacheTransparent ==
    (pc = "found" /\ validatePoints(req.start, req.end) = None)
        => found \in ColdRoutes(nearestStart, nearestEnd, req.alphas[idx])

(* the same statement for the first FindRoute call of a router, whose      *)
(* cache is empty                                                          *)
ColdCacheTransparent ==
    (pc = "found" /\ validatePoints(req.start, req.end) = None /\ idx = 1)
        => found \in ColdRoutes(nearestStart, nearestEnd, req.alphas[idx])

(* C14: with cleanupCaches deleting keys at any point of a route           *)
(* computation, every weight calculateEdgeWeight returns is the weight the *)
(* same call returns when no cleanup runs (the value a cache that is never *)
(* cleaned holds for the call's key).                                      *)
C14_CleanupTransparent ==
    lastWeight # NoWeight =>
        lastWeight.weight = neverCleaned[CacheKey(lastWeight.edge, lastWeight.alpha)]

(* the alphas of the request print to different cache keys *)
DistinctKeys ==
    \A i, j \in 1..Len(req.alphas) :
        FmtF(req.alphas[i]) = FmtF(req.alphas[j]) => req.alphas[i] = req.alphas[j]

(* the same statement for requests whose alphas print to different keys *)
CleanupTransparentOnDistinctKeys == DistinctKeys => C14_CleanupTransparent

(* a key was deleted between the load that missed it and the store *)
CleanupBetweenLoadAndStore ==
    /\ pc = "store"
    /\ cleanups > 0
    /\ DistinctKeys
    /\ Len(req.alphas) = 2

(***************************************************************************)
(* Properties of the request's bounds check, deadline and graph reads.     *)
(***************************************************************************)
(* a request point lies outside the bounding box *)
OutOfBounds ==
    ~isInBounds(req.start, chicagoBounds) \/ ~isInBounds(req.end, chicagoBounds)

(* C15: a request with a point outside the bounding box is rejected with   *)
(* an out-of-bounds error before any search step: no nearest-node scan, no *)
(* queue operation and no cache write happens for it.                      *)
C15_OutOfBoundsRejected ==
    (pc # "idle" /\ OutOfBounds) =>
        /\ pc \in {"loop", "found", "done"}
        /\ nearestStart = ZeroPoint /\ nearestEnd = ZeroPoint
        /\ frontier = {} /\ costSoFar = EmptyMap
        /\ weightCache = EmptyMap
        /\ \A i \in Calls :
               outcomes[i].err \in {"start point outside bounds", "end point outside bounds"}
        /\ pc = "done" => ret.err = "no valid routes found"

(* as C15, with a rejected call made and returned *)
OutOfBoundsSeen ==
    /\ pc = "done"
    /\ OutOfBounds
    /\ Len(outcomes) = 2
    /\ Nodes # {}

(* C16: once the request's deadline has fired, FindRoute expands at most   *)
(* one more node, and a FindRoute that was still expanding then exits with *)
(* the error "canceled".                                                   *)
C16_Cancellation ==
    /\ lateExpansions <= 1
    /\ (pc = "found" /\ lateExpansions >= 1) => found.err = "canceled"

(* C17: while a route computation is under way (from the call of          *)
(* calculateRoutes on), the load is over: every feature has been taken     *)
(* from the channel, every worker has finished, no AddEdge call is running *)
(* and the graph's mutex is free.                                          *)
C17_NoPartialGraph ==
    pc # "idle" => (featureChan = 0 /\ AllWorkersDone /\ NoAddEdgeRunning /\ mu = 0)

(* FindRoute ranges over the neighbors of a node of a graph that every     *)
(* worker has added an edge to                                             *)
C17_Witness ==
    /\ pc = "range"
    /\ served = Workers
    /\ Cardinality(inserted) >= 2
    /\ Cardinality(Nodes) >= 2

(***************************************************************************)
(* Properties of the search result.                                        *)
(***************************************************************************)
(* C18: on the square, from N to S, FindRoute at alpha = 1 returns the     *)
(* path N, W, S, whatever the order of the neighbors and of the pops among *)
(* equal priorities.                                                       *)
C18_SquareAtAlphaOne ==
    \A i \in Calls :
        (/\ Edges = SquareGraph.Edges
         /\ req.start = SqN /\ req.end = SqS
         /\ outcomes[i].alpha = AlphaDen)
            => (outcomes[i].err = None /\ outcomes[i].path = <<SqN, SqW, SqS>>)

(* on the square, from N to S, FindRoute at alpha = 0 returns a path of    *)
(* distance 2 *)
SquareAtAlphaZero ==
    \A i \in Calls :
        (/\ Edges = SquareGraph.Edges
         /\ req.start = SqN /\ req.end = SqS
         /\ outcomes[i].alpha = 0)
            => (outcomes[i].err = None /\ outcomes[i].distance = 2)

(* the path N, W, S is returned at alpha = 1 *)
SquareViaWest ==
    \E i \in Calls :
        /\ Edges = SquareGraph.Edges
        /\ outcomes[i].alpha = AlphaDen
        /\ outcomes[i].path = <<SqN, SqW, SqS>>

(* the <<node, distance>> pairs of the walks of at most k more edges from  *)
(* the pairs of S                                                          *)
RECURSIVE Walks(_, _)
Walks(S, k) ==
    IF k = 0 THEN S
    ELSE Walks(S \cup UNION {{<<n, sd[2] + Edges[sd[1]][n].Distance>> :
                                  n \in Neighbors(Edges, sd[1])} : sd \in S},
               k - 1)

(* the total distances of the paths from u to v (simple paths have fewer   *)
(* than Cardinality(Nodes) edges)                                          *)
PathDistances(u, v) ==
    {sd[2] : sd \in {x \in Walks({<<u, 0>>}, Cardinality(Nodes)) : x[1] = v}}

(* every edge is at least as long as the straight line between its ends *)
StraightLineBound ==
    \A uv \in EdgePairs : Edges[uv[1]][uv[2]].Distance * CostDen >= Euclid(uv[1], uv[2])

(* C19: on a graph whose edges are at least as long as the straight line   *)
(* between their ends, the path FindRoute returns at alpha = 0 has the     *)
(* least total distance of all paths between the resolved nodes.           *)
C19_ShortestAtAlphaZero ==
    StraightLineBound =>
        \A i \in Calls :
            (outcomes[i].alpha = 0 /\ outcomes[i].err = None) =>
                \A d \in PathDistances(outcomes[i].nearestStart, outcomes[i].nearestEnd) :
                    outcomes[i].distance <= d

(* the same statement for the first FindRoute call of a router, whose      *)
(* cache is empty                                                          *)
ShortestAtAlphaZeroOnColdCache ==
    (StraightLineBound /\ Len(outcomes) >= 1 /\ outcomes[1].alpha = 0 /\ outcomes[1].err = None)
        => \A d \in PathDistances(outcomes[1].nearestStart, outcomes[1].nearestEnd) :
               outcomes[1].distance <= d

(* a cold search at alpha = 0 between two nodes joined by paths of         *)
(* different distances                                                     *)
ShortestAtAlphaZeroSeen ==
    /\ Len(outcomes) >= 1 /\ outcomes[1].alpha = 0 /\ outcomes[1].err = None
    /\ Cardinality(PathDistances(outcomes[1].nearestStart, outcomes[1].nearestEnd)) >= 2
    /\ Len(outcomes[1].path) >= 2

(* C20: once the router is constructed, no step of FindRoute,             *)
(* calculateRoutes, calculateEdgeWeight, findNearestPoint, reconstructPath *)
(* or cleanupCaches changes the adjacency structure or maxDist.            *)
C20_GraphReadOnly ==
    [][serving => (Edges' = Edges /\ maxDist' = maxDist)]_vars

(* a request on a graph with edges has returned routes, weights were       *)
(* cached and the cleanup has deleted a key                                *)
C20_Witness ==
    /\ serving
    /\ pc = "done"
    /\ Len(ret.routes) = Len(HandlerAlphas)
    /\ Len(ret.routes[1].Path) >= 2
    /\ neverCleaned # EmptyMap
    /\ cleanups > 0
    /\ maxDist > 0

(***************************************************************************)
(* Properties of FindRoute's loop.                                         *)
(***************************************************************************)
(* FindRoute is in its loop *)
Searching == pc \in {"search", "range"}

(* C21: FindRoute terminates; it returns a route at the first moment the   *)
(* resolved end node is popped (the end node is never expanded, and the    *)
(* pop of it is the return of a route), and it returns "no path found"     *)
(* exactly when the queue is empty without the end node having been        *)
(* popped.                                                                 *)
C21_Termination ==
    /\ [](pc = "range" => current # nearestEnd)
    /\ [][pc = "search" =>
            IF frontier = {}
            THEN pc' = "found" /\ found'.err = "no path found"
            ELSE \E it \in frontier :
                    /\ frontier' = frontier \ {it}
                    /\ current' = it.point
                    /\ IF it.point = nearestEnd
                       THEN pc' = "found" /\ found'.err = None /\ Len(found'.path) >= 1
                       ELSE Searching']_vars
    /\ [][(Searching /\ pc' = "found" /\ found'.err # None) =>
            (frontier = {} /\ found'.err = "no path found")]_vars
    /\ Searching ~> (pc = "found")

(* the end node is popped after other nodes were expanded, while the queue *)
(* still holds items, and a route of several edges is returned             *)
C21_Witness ==
    /\ pc = "found"
    /\ found.err = None
    /\ Len(found.path) >= 3
    /\ frontier # {}
    /\ Cardinality(DOMAIN costSoFar) >= 3

(* the neighbor a step of the range loop has visited *)
Visited == CHOOSE n \in todo : n \notin todo'

(* C22: when the range loop visits a neighbor, with the tentative cost     *)
(* costSoFar[current] + the weight calculateEdgeWeight returned, the       *)
(* neighbor's recorded cost, queue entry and predecessor are written       *)
(* exactly when the neighbor has no recorded cost or the tentative cost is *)
(* strictly smaller than the recorded one; otherwise none of the three     *)
(* changes; and no recorded cost increases or disappears during a search.  *)
C22_Relaxation ==
    /\ [][(pc = "range" /\ todo' # todo) =>
            LET n == Visited
                tentative == FAdd(costSoFar[current], lastWeight'.weight)
                better == \/ n \notin DOMAIN costSoFar
                          \/ /\ tentative # NaN
                             /\ costSoFar[n] # NaN
                             /\ tentative < costSoFar[n]
            IN /\ todo' = todo \ {n}
               /\ lastWeight'.edge = Edges[current][n]
               /\ IF better
                  THEN /\ n \in DOMAIN costSoFar' /\ costSoFar'[n] = tentative
                       /\ \A m \in DOMAIN costSoFar : m # n => costSoFar'[m] = costSoFar[m]
                       /\ n \in DOMAIN cameFrom' /\ cameFrom'[n] = current
                       /\ \E it \in frontier' :
                             /\ it.point = n
                             /\ it.priority = FAdd(tentative, heuristic(n, nearestEnd))
                             /\ frontier' = frontier \cup {it}
                  ELSE /\ costSoFar' = costSoFar
                       /\ cameFrom' = cameFrom
                       /\ frontier' = frontier]_vars
    /\ [][(Searching /\ Searching') =>
            \A m \in DOMAIN costSoFar :
                /\ m \in DOMAIN costSoFar'
                /\ costSoFar'[m] = costSoFar[m] \/ FLess(costSoFar'[m], costSoFar[m])]_vars

(* the loop has just visited a neighbor whose tentative cost equals the    *)
(* cost recorded for it along another path, and has recorded nothing       *)
C22_Witness ==
    /\ Searching
    /\ lastWeight # NoWeight
    /\ lastWeight.edge.Start = current
    /\ lastWeight.edge.End # current
    /\ lastWeight.edge.End \notin todo
    /\ lastWeight.edge.End \in DOMAIN cameFrom
    /\ cameFrom[lastWeight.edge.End] # current
    /\ costSoFar[current] # NaN
    /\ costSoFar[lastWeight.edge.End] = costSoFar[current] + lastWeight.weight

(***************************************************************************)
(* Properties of the returned route.                                       *)
(***************************************************************************)
(* every point of the path is a graph node and consecutive points are      *)
(* joined by a stored edge                                                 *)
IsWalk(path) ==
    /\ \A k \in 1..Len(path) : path[k] \in Nodes
    /\ \A k \in 1..(Len(path) - 1) : path[k + 1] \in DOMAIN Edges[path[k]]

(* C23: every path FindRoute returns is a walk in the graph: its points    *)
(* are nodes of the graph and consecutive points are joined by an edge     *)
(* stored in the graph.                                                    *)
C23_PathIsWalk ==
    \A i \in Calls : outcomes[i].err = None => IsWalk(outcomes[i].path)

(* the same statement on graphs that have nodes *)
PathIsWalkOnGraphWithNodes == Nodes # {} => C23_PathIsWalk

(* a path of several edges was returned *)
PathOfSeveralEdgesSeen ==
    \E i \in Calls : outcomes[i].err = None /\ Len(outcomes[i].path) >= 3

(* the sum of the distances of the edges between consecutive points of a  *)
(* path, from its k-th point on                                            *)
RECURSIVE SumDistance(_, _)
SumDistance(path, k) ==
    IF k >= Len(path) THEN 0
    ELSE Edges[path[k]][path[k + 1]].Distance + SumDistance(path, k + 1)

(* the sum of riskScore * distance over the same edges *)
RECURSIVE SumRisk(_, _)
SumRisk(path, k) ==
    IF k >= Len(path) THEN 0
    ELSE Edges[path[k]][path[k + 1]].RiskScore * Edges[path[k]][path[k + 1]].Distance
         + SumRisk(path, k + 1)

(* C24: for every route FindRoute returns, the total distance is the sum   *)
(* of the distances of the edges between consecutive path points, and the  *)
(* average risk (a fraction <<numerator, denominator>>) is the sum of      *)
(* riskScore * distance over those edges divided by the total distance, or *)
(* 0 when the total distance is 0.                                         *)
C24_DistanceAndRisk ==
    \A i \in Calls :
        outcomes[i].err = None =>
            /\ outcomes[i].distance = SumDistance(outcomes[i].path, 1)
            /\ outcomes[i].risk[2] > 0
            /\ IF outcomes[i].distance = 0
               THEN outcomes[i].risk[1] = 0
               ELSE outcomes[i].risk[1] * outcomes[i].distance
                        = SumRisk(outcomes[i].path, 1) * outcomes[i].risk[2]

(* a route of two edges with different risk scores was returned *)
C24_Witness ==
    \E i \in Calls :
        /\ outcomes[i].err = None
        /\ Len(outcomes[i].path) = 3
        /\ Edges[outcomes[i].path[1]][outcomes[i].path[2]].RiskScore
               # Edges[outcomes[i].path[2]][outcomes[i].path[3]].RiskScore
        /\ outcomes[i].distance > 1
        /\ outcomes[i].risk[1] > 0

(* the total weighted cost of a path at alpha: the sum of the formula      *)
(* weights of the edges between consecutive points, from the k-th point on *)
RECURSIVE SumWeight(_, _, _)
SumWeight(path, k, alpha) ==
    IF k >= Len(path) THEN 0
    ELSE FAdd(Weight(Edges[path[k]][path[k + 1]], alpha, maxDist),
              SumWeight(path, k + 1, alpha))

(* C25: for a fixed graph, start, end and alpha, the total weighted cost   *)
(* of the path FindRoute returns is the same for every order of the pops   *)
(* among equal priorities and of the neighbors: every route the search can *)
(* return for the same resolved nodes and alpha has the cost of the one    *)
(* returned.                                                               *)
C25_OrderIndependentCost ==
    (pc = "found" /\ found.err = None) =>
        \A r \in ColdRoutes(nearestStart, nearestEnd, req.alphas[idx]) :
            /\ r.err = None
            /\ SumWeight(r.path, 1, req.alphas[idx])
                   = SumWeight(found.path, 1, req.alphas[idx])

(* the same statement at alpha = 0 on graphs whose edges are at least as   *)
(* long as the straight line between their ends, for the first FindRoute   *)
(* call of a router                                                        *)
OrderIndependentCostAtAlphaZero ==
    (StraightLineBound /\ Len(outcomes) = 0 /\ pc = "found" /\ req.alphas[idx] = 0)
        => C25_OrderIndependentCost

(* two routes of different weighted cost can be returned for one request   *)
(* on a router whose cache is empty                                        *)
TwoCostsSeen ==
    /\ pc = "found" /\ found.err = None /\ Len(outcomes) = 0
    /\ found \in ColdRoutes(nearestStart, nearestEnd, req.alphas[idx])
    /\ \E r \in ColdRoutes(nearestStart, nearestEnd, req.alphas[idx]) :
          SumWeight(r.path, 1, req.alphas[idx]) > SumWeight(found.path, 1, req.alphas[idx])

(***************************************************************************)
(* Properties of the weight cache's entries.                               *)
(***************************************************************************)
(* C26: no weight-cache entry expires during a route computation: while    *)
(* the first FindRoute of a router runs (every key ever stored was stored  *)
(* by it), every key stored so far is still in the cache, also when the    *)
(* periodic cleanup is active.                                             *)
C26_NoExpiryDuringComputation ==
    (pc \in {"search", "range", "store"} /\ Len(outcomes) = 0) =>
        \A key \in DOMAIN neverCleaned : key \in DOMAIN weightCache

(* C27: a value calculateEdgeWeight takes from the weight cache is the     *)
(* formula value for the edge and the alpha of the call: a call with alpha *)
(* a2 never returns the entry stored by a call with another alpha a1.      *)
C27_CacheKeyedByAlpha ==
    (lastWeight # NoWeight /\ lastWeight.hit) =>
        lastWeight.weight = Weight(lastWeight.edge, lastWeight.alpha, lastWeight.maxDist)

(* the same statement for requests whose alphas print to different keys *)
CacheKeyedByAlphaOnDistinctKeys == DistinctKeys => C27_CacheKeyedByAlpha

(* a call hit the cache in a request that repeats an alpha above 0 *)
CacheHitOnDistinctKeys ==
    /\ lastWeight # NoWeight /\ lastWeight.hit
    /\ DistinctKeys
    /\ lastWeight.alpha > 0
    /\ lastWeight.maxDist > 0
    /\ idx = 2

(***************************************************************************)
(* Properties of FindRoute's success.                                      *)
(***************************************************************************)
(* C28: on a graph with maxDist > 0 and for in-bounds start and end, the   *)
(* FindRoute calls of one calculateRoutes succeed for every alpha or fail  *)
(* for every alpha, so calculateRoutes returns one route per input alpha   *)
(* or the error "no valid routes found", never a proper non-empty subset.  *)
C28_AlphaIndependentSuccess ==
    (maxDist > 0 /\ validatePoints(req.start, req.end) = None) =>
        /\ \A i, j \in Calls : (outcomes[i].err = None) <=> (outcomes[j].err = None)
        /\ pc = "done" =>
              \/ ret.err = None /\ Len(ret.routes) = Len(req.alphas)
              \/ ret.err = "no valid routes found" /\ ret.routes = <<>>

(* two FindRoute calls resolved the same start node and the same end node *)
SameResolved(i, j) ==
    /\ outcomes[i].nearestStart = outcomes[j].nearestStart
    /\ outcomes[i].nearestEnd = outcomes[j].nearestEnd

(* C28, amended: on a graph with maxDist > 0 and for in-bounds start and   *)
(* end, FindRoute calls that resolve the same start and end nodes succeed  *)
(* for every alpha or fail for every alpha; when every call of one         *)
(* calculateRoutes resolves the same nodes, it returns one route per input *)
(* alpha or the error "no valid routes found".                             *)
C28_SuccessByResolvedNodes ==
    (maxDist > 0 /\ validatePoints(req.start, req.end) = None) =>
        /\ \A i, j \in Calls :
               SameResolved(i, j) => ((outcomes[i].err = None) <=> (outcomes[j].err = None))
        /\ (pc = "done" /\ \A i, j \in Calls : SameResolved(i, j)) =>
              \/ ret.err = None /\ Len(ret.routes) = Len(req.alphas)
              \/ ret.err = "no valid routes found" /\ ret.routes = <<>>

(* calculateRoutes has returned one route for each of two alphas at the    *)
(* two ends of [0,1], with different paths between the same resolved nodes *)
C28_Witness ==
    /\ pc = "done"
    /\ maxDist > 0
    /\ validatePoints(req.start, req.end) = None
    /\ req.alphas = <<0, AlphaDen>>
    /\ Len(outcomes) = 2 /\ SameResolved(1, 2)
    /\ ret.err = None
    /\ Len(ret.routes) = 2
    /\ ret.routes[1].Path # ret.routes[2].Path
    /\ ret.routes[1].Distance < ret.routes[2].Distance

(***************************************************************************)
(* Properties of the predecessor map and of the recorded costs.            *)
(***************************************************************************)
(* following the predecessor links from n reaches the resolved start node  *)
(* without visiting a node of seen or any node twice                       *)
RECURSIVE ReachesStart(_, _)
ReachesStart(n, seen) ==
    IF n = nearestStart THEN TRUE
    ELSE IF n \in seen \/ n \notin DOMAIN cameFrom THEN FALSE
    ELSE ReachesStart(cameFrom[n], seen \cup {n})

NoRepeatedPoint(path) ==
    \A k, l \in 1..Len(path) : path[k] = path[l] => k = l

(* C29: in every state of a search the predecessor map has no entry for    *)
(* the resolved start node, and following the predecessor links from any   *)
(* node reaches the start node without visiting a node twice; the path     *)
(* reconstructPath returns contains no repeated point.                     *)
C29_PredecessorTree ==
    /\ nearestStart \notin DOMAIN cameFrom
    /\ \A n \in DOMAIN cameFrom : ReachesStart(n, {})
    /\ (pc = "found" /\ found.err = None) => NoRepeatedPoint(found.path)

(* a route of several edges is returned from a start node that has a       *)
(* self-loop, on a graph with a cycle through the start node               *)
C29_Witness ==
    /\ pc = "found"
    /\ found.err = None
    /\ Len(found.path) >= 3
    /\ nearestStart \in DOMAIN Edges[nearestStart]
    /\ nearestStart \in DOMAIN Edges[nearestEnd]
    /\ Cardinality(DOMAIN cameFrom) >= 2

(* C30: in every state of a search every recorded cost is non-negative,    *)
(* the cost of the resolved start node is 0, and the cost of every node    *)
(* with a predecessor is at least the cost of the predecessor plus the     *)
(* weight of the edge between them at the search's alpha; so when the end  *)
(* node is popped, the summed weight of the returned path is at most the   *)
(* cost recorded for the end node.                                         *)
C30_CostInvariant ==
    (pc \in {"search", "range", "found"} /\ validatePoints(req.start, req.end) = None) =>
        LET alpha == req.alphas[idx]
        IN /\ \A n \in DOMAIN costSoFar : costSoFar[n] # NaN /\ costSoFar[n] >= 0
           /\ costSoFar[nearestStart] = 0
           /\ \A n \in DOMAIN cameFrom :
                  LET weight == Weight(Edges[cameFrom[n]][n], alpha, maxDist)
                  IN weight # NaN /\ costSoFar[n] >= costSoFar[cameFrom[n]] + weight
           /\ (pc = "found" /\ found.err = None) =>
                  /\ SumWeight(found.path, 1, alpha) # NaN
                  /\ SumWeight(found.path, 1, alpha) <= costSoFar[nearestEnd]

(* the same statement for requests whose alphas print to different cache   *)
(* keys                                                                    *)
CostInvariantOnDistinctKeys == DistinctKeys => C30_CostInvariant

(* a route of several edges is returned at an alpha above 0 in a request   *)
(* whose alphas print to different cache keys                              *)
CostInvariantSeen ==
    /\ pc = "found" /\ found.err = None
    /\ DistinctKeys
    /\ req.alphas[idx] > 0
    /\ Len(found.path) >= 3

=============================================================================
